---- MODULE Spec2Model ----
(***************************************************************************)
(* Provides side of the aws-integration interface (src/provides.py):       *)
(* AWSIntegrationProvides (check_requests, cleanup, requests,              *)
(* all_requests, unit_instances) and IntegrationRequest (hash, changed,    *)
(* mark_completed, clear, completed_for_instance, is_completed, typed      *)
(* accessors), over one relation of the endpoint.                          *)
(*                                                                         *)
(* Python values are written as strings: None is "<None>", True and False  *)
(* are "<True>" and "<False>", a list or a mapping is "<[..]>" or          *)
(* "<{..}>", every other string is the Python str of the same text.        *)
(* unit.received is an insertion-ordered mapping, a sequence of            *)
(* <<key, value>> pairs with distinct keys; reading a key it does not hold *)
(* gives None (the data view of the reactive framework).                   *)
(* sha256 is taken to be collision free: a digest is written as the text   *)
(* it digests.                                                             *)
(***************************************************************************)
EXTENDS Integers, Sequences, FiniteSets, TLC

VARIABLES
    status,          \* unit -> "absent" | "joined" | "departed"
    received,        \* unit -> unit.received
    kv,              \* unitdata.kv(): key -> saved hash
    to_publish,      \* relation.to_publish: "completed" -> (instance id -> hash)
    flag_changed,    \* endpoint.{endpoint_name}.changed
    flag_departed,   \* endpoint.{endpoint_name}.departed
    flag_requested,  \* endpoint.{endpoint_name}.requested
    marked,          \* unit -> its request was marked completed with the data it still has
    quiet,           \* units marked completed since any unit last joined, changed or left
    dispatch,        \* where a check_requests that runs turn by turn stands
    last             \* the operation that ran last, and how it ended

vars == <<status, received, kv, to_publish, flag_changed, flag_departed,
          flag_requested, marked, quiet, dispatch, last>>

\* ------------------------------------------------------------------ values

None == "<None>"

PyTrue == "<True>"

PyFalse == "<False>"

Lists == {"<[]>", "<['p']>"}

Dicts == {"<{}>", "<{'k': 'v'}>"}

\* Python truth value of a value (`x and y`, `not x`, `x or []`, bool(x))
Truthy(v) == v \notin {None, PyFalse, "", "<[]>", "<{}>"}

\* hash(v) succeeds: a value usable as a dict key
Hashable(v) == v \notin (Lists \cup Dicts)

\* '{}'.format(v)
Format(v) ==
    CASE v = None -> "None"
      [] v = PyTrue -> "True"
      [] v = PyFalse -> "False"
      [] v = "<[]>" -> "[]"
      [] v = "<['p']>" -> "['p']"
      [] v = "<{}>" -> "{}"
      [] v = "<{'k': 'v'}>" -> "{'k': 'v'}"
      [] OTHER -> v

\* ------------------------------------------------------------------ bounds

Units == <<"aws/0", "aws/1">>

UnitNames == {Units[i] : i \in 1..Len(Units)}

\* the received mappings a remote unit publishes
AllPayloads == <<
    << <<"instance-id", "i-1">>, <<"requested", PyTrue>>, <<"enable-dns-management", PyTrue>> >>,
    << <<"instance-id", "i-1">>, <<"requested", PyTrue>>, <<"enable-dns-management", PyFalse>> >>,
    << <<"instance-id", "i-2">>, <<"requested", PyTrue>>, <<"enable-dns-management", PyTrue>> >>,
    << <<"instance-id", "i-1">>, <<"enable-dns-management", PyTrue>> >>,
    << <<"requested", PyTrue>>, <<"enable-dns-management", PyTrue>> >>,
    << <<"instance-id", "i-1">>, <<"requested", PyFalse>>, <<"enable-dns-management", PyTrue>> >>,
    << >>,
    << <<"instance-id", "">>, <<"requested", PyTrue>> >>
  >>

NumPayloads == 4

Min(a, b) == IF a < b THEN a ELSE b

Payloads == {AllPayloads[i] : i \in 1..Min(NumPayloads, Len(AllPayloads))}

\* the pair of key k with one of the values vs, or no pair
Opt(k, vs) == {<< >>} \cup {<< <<k, v>> >> : v \in vs}

\* received mappings whose fields may be missing or of the wrong type
AccessPayloads ==
    {a \o b \o c :
        a \in Opt("instance-id", {"i-1", "<['p']>"}),
        b \in Opt("requested", {PyTrue}),
        c \in {<< >>,
               << <<"instance-tags", "prod">> >>,
               << <<"object-storage-access-patterns", PyTrue>> >>,
               << <<"instance-tags", "<{'k': 'v'}>">>,
                  <<"object-storage-access-patterns", "<['p']>">>,
                  <<"enable-dns-management", PyTrue>> >>}}

MaxKeys == 3

HashPairs == {<<"instance-id", "i-1">>, <<"instance-id", "i-2">>,
              <<"requested", PyTrue>>,
              <<"enable-dns-management", PyTrue>>,
              <<"enable-dns-management", PyFalse>>}

\* the mappings of at most MaxKeys of these pairs, in every key order
HashInputs ==
    {D \in UNION {[1..n -> HashPairs] : n \in 0..MaxKeys} :
        \A i, j \in 1..Len(D) : D[i][1] = D[j][1] => i = j}

\* ------------------------------------------------------------------ received

KeyOrder == <<"enable-dns-management", "instance-id", "instance-tags",
              "object-storage-access-patterns", "region", "requested">>

KeyRank(k) == CHOOSE i \in 1..Len(KeyOrder) : KeyOrder[i] = k

HasKey(D, k) == \E i \in 1..Len(D) : D[i][1] = k

\* unit.received[k]
Lookup(D, k) ==
    IF HasKey(D, k) THEN D[CHOOSE i \in 1..Len(D) : D[i][1] = k][2] ELSE None

\* unit.received.get(k, default)
LookupDefault(D, k, default) ==
    IF HasKey(D, k) THEN Lookup(D, k) ELSE default

\* json.dumps without sort_keys: the pairs in insertion order
json_dumps_unsorted(D) == D

\* a digest text that leaves the capability flags out
json_dumps_partial(D) ==
    SelectSeq(SortSeq(D, LAMBDA a, b : KeyRank(a[1]) < KeyRank(b[1])),
              LAMBDA p : p[1] # "enable-dns-management")

\* json.dumps(dict(unit.received), sort_keys=True)
json_dumps(D) == SortSeq(D, LAMBDA a, b : KeyRank(a[1]) < KeyRank(b[1]))

sha256(text) == <<"sha256", text>>

\* IntegrationRequest.__init__ / hash
hash(D) == sha256(json_dumps(D))

instance_id(D) == Lookup(D, "instance-id")

requested(D) == Lookup(D, "requested")

\* IntegrationRequest._hash_key
hash_key(D) == "request." \o Format(instance_id(D))

\* ------------------------------------------------------------------ request

\* relation.to_publish.get('completed', {})
completed_map(tp) ==
    IF "completed" \in DOMAIN tp THEN tp["completed"] ELSE [x \in {} |-> x]

\* changed, testing instance_id alone
changed_in_noreq(store, D) ==
    IF ~Truthy(instance_id(D))
    THEN FALSE
    ELSE IF hash_key(D) \in DOMAIN store
         THEN store[hash_key(D)] # hash(D)
         ELSE TRUE

\* IntegrationRequest.changed
changed_in(store, D) ==
    IF ~(Truthy(instance_id(D)) /\ Truthy(requested(D)))
    THEN FALSE
    ELSE IF hash_key(D) \in DOMAIN store
         THEN store[hash_key(D)] # hash(D)
         ELSE TRUE

\* completed_for_instance without the comparison of the hashes
completed_for_instance_in_any(store, D) ==
    /\ Truthy(instance_id(D))
    /\ Truthy(requested(D))
    /\ hash_key(D) \in DOMAIN store

\* IntegrationRequest.completed_for_instance (its truth value)
completed_for_instance_in(store, D) ==
    /\ Truthy(instance_id(D))
    /\ Truthy(requested(D))
    /\ hash_key(D) \in DOMAIN store
    /\ store[hash_key(D)] = hash(D)

\* IntegrationRequest.is_completed; defined when instance_id is hashable
is_completed_in(tp, D) ==
    /\ instance_id(D) \in DOMAIN completed_map(tp)
    /\ completed_map(tp)[instance_id(D)] = hash(D)

\* mark_completed starting from an empty completion map
mark_publish_fresh(tp, D) ==
    [c \in {"completed"} |-> [i \in {instance_id(D)} |-> hash(D)]]

\* mark_completed without the write to relation.to_publish
mark_publish_lost(tp, D) == tp

\* mark_completed without the unitdata.kv().set
mark_kv_lost(store, D) == store

\* IntegrationRequest.mark_completed: the store and the payload it leaves
mark_kv(store, D) ==
    [k \in DOMAIN store \cup {hash_key(D)} |->
        IF k = hash_key(D) THEN hash(D) ELSE store[k]]

mark_publish(tp, D) ==
    [c \in {"completed"} |->
        [i \in DOMAIN completed_map(tp) \cup {instance_id(D)} |->
            IF i = instance_id(D) THEN hash(D) ELSE completed_map(tp)[i]]]

\* clear dropping every persisted acknowledgement
clear_kv_all(store, D) == [k \in {} |-> k]

\* IntegrationRequest.clear
clear_kv(store, D) ==
    [k \in DOMAIN store \ {hash_key(D)} |-> store[k]]

\* ------------------------------------------------------------------ endpoint

\* Endpoint.all_joined_units, Endpoint.all_departed_units
all_joined_units == SelectSeq(Units, LAMBDA u : status[u] = "joined")

all_departed_units == SelectSeq(Units, LAMBDA u : status[u] = "departed")

\* AWSIntegrationProvides.all_requests: one request per joined unit, in order
all_requests == [i \in 1..Len(all_joined_units) |-> all_joined_units[i]]

changed(u) == changed_in(kv, received[u])

completed_for_instance(u) == completed_for_instance_in(kv, received[u])

is_completed(u) == is_completed_in(to_publish, received[u])

\* requests filtered on is_completed instead of changed
requests_uncompleted == SelectSeq(all_requests, LAMBDA u : ~is_completed(u))

\* AWSIntegrationProvides.requests
requests == SelectSeq(all_requests, LAMBDA u : changed(u))

\* check_requests counting a reconciled request as unfulfilled
check_one_pending(u, D, acc) ==
    IF changed_in(acc.kv, D)
    THEN [acc EXCEPT !.unfulfilled = TRUE]
    ELSE IF ~Hashable(instance_id(D))
         THEN [acc EXCEPT !.raised = TRUE]
         ELSE IF ~is_completed_in(acc.pub, D) /\ completed_for_instance_in(acc.kv, D)
              THEN [acc EXCEPT !.kv = mark_kv(acc.kv, D),
                               !.pub = mark_publish(acc.pub, D),
                               !.logged = u,
                               !.unfulfilled = TRUE]
              ELSE acc

\* check_requests without the elif branch
check_one_noreconcile(u, D, acc) ==
    IF changed_in(acc.kv, D)
    THEN [acc EXCEPT !.unfulfilled = TRUE]
    ELSE IF ~Hashable(instance_id(D))
         THEN [acc EXCEPT !.raised = TRUE]
         ELSE acc

\* check_requests marking a changed request completed by itself
check_one_autoack(u, D, acc) ==
    IF changed_in(acc.kv, D)
    THEN [acc EXCEPT !.unfulfilled = TRUE,
                     !.kv = mark_kv(acc.kv, D),
                     !.pub = mark_publish(acc.pub, D)]
    ELSE IF ~Hashable(instance_id(D))
         THEN [acc EXCEPT !.raised = TRUE]
         ELSE IF ~is_completed_in(acc.pub, D) /\ completed_for_instance_in(acc.kv, D)
              THEN [acc EXCEPT !.kv = mark_kv(acc.kv, D),
                               !.pub = mark_publish(acc.pub, D),
                               !.logged = u]
              ELSE acc

\* one turn of the loop of check_requests; logged is the unit of the last
\* 'Marking request as completed' line of the log
check_one(u, D, acc) ==
    IF changed_in(acc.kv, D)
    THEN [acc EXCEPT !.unfulfilled = TRUE]
    ELSE IF ~Hashable(instance_id(D))
         THEN [acc EXCEPT !.raised = TRUE]
         ELSE IF ~is_completed_in(acc.pub, D) /\ completed_for_instance_in(acc.kv, D)
              THEN [acc EXCEPT !.kv = mark_kv(acc.kv, D),
                               !.pub = mark_publish(acc.pub, D),
                               !.logged = u]
              ELSE acc

RECURSIVE check_loop(_, _)
check_loop(us, acc) ==
    IF us = << >> \/ acc.raised
    THEN acc
    ELSE check_loop(Tail(us), check_one(Head(us), received[Head(us)], acc))

RECURSIVE clear_loop(_, _)
clear_loop(us, store) ==
    IF us = << >>
    THEN store
    ELSE clear_loop(Tail(us), clear_kv(store, received[Head(us)]))

Op(name, u, result) == [op |-> name, unit |-> u, result |-> result, value |-> "-"]

\* ------------------------------------------------------------------ accessors

\* dict(x): a copy of a mapping, the mapping of an empty iterable, or an error
dict_of(x) ==
    IF x \in Dicts THEN x
    ELSE IF x \in {"", "<[]>"} THEN "<{}>"
    ELSE "raise"

\* list(x): the items of an iterable, or an error
list_of(x) ==
    IF x \in Lists THEN x
    ELSE IF x \in {"", "<{}>"} THEN "<[]>"
    ELSE IF x = "<{'k': 'v'}>" THEN "<['k']>"
    ELSE IF x \in {None, PyTrue, PyFalse} THEN "raise"
    ELSE "<chars>"

\* bool(x)
bool_of(x) == IF Truthy(x) THEN PyTrue ELSE PyFalse

\* IntegrationRequest.instance_tags
instance_tags(D) == dict_of(LookupDefault(D, "instance-tags", "<{}>"))

\* IntegrationRequest.object_storage_access_patterns
object_storage_access_patterns(D) ==
    LET x == Lookup(D, "object-storage-access-patterns")
    IN list_of(IF Truthy(x) THEN x ELSE "<[]>")

\* IntegrationRequest.requested_dns_management
requested_dns_management(D) == bool_of(Lookup(D, "enable-dns-management"))

\* one entry of AWSIntegrationProvides.unit_instances
unit_instances(D) == <<Lookup(D, "instance-id"), Lookup(D, "region")>>

Accessors == {"changed", "completed_for_instance", "is_completed",
              "unit_instances", "instance_tags",
              "object_storage_access_patterns", "requested_dns_management"}

\* what reading accessor a of the request of u gives: a value, or "raise"
Read(a, u) ==
    LET D == received[u]
    IN CASE a = "changed" -> IF changed_in(kv, D) THEN PyTrue ELSE PyFalse
         [] a = "completed_for_instance" ->
                IF completed_for_instance_in(kv, D) THEN PyTrue ELSE PyFalse
         [] a = "is_completed" ->
                IF ~Hashable(instance_id(D)) THEN "raise"
                ELSE IF is_completed_in(to_publish, D) THEN PyTrue ELSE PyFalse
         [] a = "unit_instances" -> Format(unit_instances(D)[1])
         [] a = "instance_tags" -> instance_tags(D)
         [] a = "object_storage_access_patterns" -> object_storage_access_patterns(D)
         [] a = "requested_dns_management" -> requested_dns_management(D)

\* ------------------------------------------------------------------ actions

\* no check_requests is under way
Idle == [pc |-> "idle", rest |-> << >>, done |-> << >>,
         unfulfilled |-> FALSE, logged |-> "-", toggles |-> 0]

Init ==
    /\ status = [u \in UnitNames |-> "absent"]
    /\ received = [u \in UnitNames |-> << >>]
    /\ kv = [k \in {} |-> k]
    /\ to_publish = [k \in {} |-> k]
    /\ flag_changed = FALSE
    /\ flag_departed = FALSE
    /\ flag_requested = FALSE
    /\ marked = [u \in UnitNames |-> {}]
    /\ quiet = {}
    /\ dispatch = Idle
    /\ last = Op("init", "-", "ok")

\* a remote unit joins the relation and publishes D
JoinWith(u, D) ==
    /\ status[u] = "absent"
    /\ status' = [status EXCEPT ![u] = "joined"]
    /\ received' = [received EXCEPT ![u] = D]
    /\ flag_changed' = TRUE
    /\ marked' = [marked EXCEPT ![u] = {}]
    /\ quiet' = {}
    /\ last' = Op("join", "-", "ok")
    /\ UNCHANGED <<kv, to_publish, flag_departed, flag_requested, dispatch>>

Join(u) == \E D \in Payloads : JoinWith(u, D)

\* a joined remote unit replaces what it publishes
RemoteChange(u) ==
    \E D \in Payloads :
        /\ status[u] = "joined"
        /\ D # received[u]
        /\ received' = [received EXCEPT ![u] = D]
        /\ flag_changed' = TRUE
        /\ marked' = [marked EXCEPT ![u] = {}]
        /\ quiet' = {}
        /\ last' = Op("remote_change", "-", "ok")
        /\ UNCHANGED <<status, kv, to_publish, flag_departed, flag_requested, dispatch>>

\* a joined remote unit leaves the relation
Depart(u) ==
    /\ status[u] = "joined"
    /\ status' = [status EXCEPT ![u] = "departed"]
    /\ flag_departed' = TRUE
    /\ quiet' = {}
    /\ last' = Op("depart", "-", "ok")
    /\ UNCHANGED <<received, kv, to_publish, flag_changed, flag_requested, marked,
                   dispatch>>

\* AWSIntegrationProvides.check_requests
CheckRequests ==
    /\ flag_changed
    /\ LET r == check_loop(all_requests,
                           [kv |-> kv, pub |-> to_publish, logged |-> "-",
                            unfulfilled |-> FALSE, raised |-> FALSE])
       IN /\ kv' = r.kv
          /\ to_publish' = r.pub
          /\ IF r.raised
             THEN /\ UNCHANGED <<flag_requested, flag_changed>>
                  /\ last' = Op("check_requests", "-", "raise")
             ELSE /\ flag_requested' = r.unfulfilled
                  /\ flag_changed' = FALSE
                  /\ last' = [Op("check_requests",
                                 IF last.op = "replay" THEN "again" ELSE "-", "ok")
                                 EXCEPT !.value = r.logged]
    /\ UNCHANGED <<status, received, flag_departed, marked, quiet, dispatch>>

\* cleanup that also withdraws the published entries of the departed units
CleanupUnpublish ==
    /\ flag_departed
    /\ kv' = clear_loop(all_departed_units, kv)
    /\ to_publish' =
          [c \in DOMAIN to_publish |->
            [i \in DOMAIN to_publish[c] \
                    {instance_id(received[u]) : u \in {v \in UnitNames : status[v] = "departed"}}
                |-> to_publish[c][i]]]
    /\ status' = [u \in UnitNames |->
                    IF status[u] = "departed" THEN "absent" ELSE status[u]]
    /\ received' = [u \in UnitNames |->
                    IF status[u] = "departed" THEN << >> ELSE received[u]]
    /\ flag_departed' = FALSE
    /\ last' = Op("cleanup", "-", "ok")
    /\ UNCHANGED <<flag_changed, flag_requested, marked, quiet, dispatch>>

\* AWSIntegrationProvides.cleanup
Cleanup ==
    /\ flag_departed
    /\ kv' = clear_loop(all_departed_units, kv)
    /\ status' = [u \in UnitNames |->
                    IF status[u] = "departed" THEN "absent" ELSE status[u]]
    /\ received' = [u \in UnitNames |->
                    IF status[u] = "departed" THEN << >> ELSE received[u]]
    /\ flag_departed' = FALSE
    /\ last' = Op("cleanup", "-", "ok")
    /\ UNCHANGED <<to_publish, flag_changed, flag_requested, marked, quiet, dispatch>>

\* the charm calls IntegrationRequest.mark_completed on the request of u
MarkCompleted(u) ==
    /\ status[u] = "joined"
    /\ IF Hashable(instance_id(received[u]))
       THEN /\ kv' = mark_kv(kv, received[u])
            /\ to_publish' = mark_publish(to_publish, received[u])
            /\ marked' = [marked EXCEPT ![u] = {received[u]}]
            /\ quiet' = quiet \cup {u}
            /\ last' = Op("mark_completed", u, "ok")
       ELSE /\ UNCHANGED <<kv, to_publish, marked, quiet>>
            /\ last' = Op("mark_completed", u, "raise")
    /\ UNCHANGED <<status, received, flag_changed, flag_departed, flag_requested,
                   dispatch>>

\* the charm reads one accessor of the request of a joined unit
Access(u) ==
    \E a \in Accessors :
        /\ status[u] = "joined"
        /\ last' = [op |-> a, unit |-> u,
                    result |-> IF Read(a, u) = "raise" THEN "raise" ELSE "ok",
                    value |-> Read(a, u)]
        /\ UNCHANGED <<status, received, kv, to_publish, flag_changed,
                       flag_departed, flag_requested, marked, quiet, dispatch>>

\* a remote unit joins and publishes a mapping with missing or malformed fields
JoinAny(u) == \E D \in AccessPayloads : JoinWith(u, D)

\* the unit restarts before the payload it was to publish is committed
Restart ==
    /\ "completed" \in DOMAIN to_publish
    /\ to_publish' = [k \in {} |-> k]
    /\ flag_changed' = TRUE
    /\ last' = Op("restart", "-", "ok")
    /\ UNCHANGED <<status, received, kv, flag_departed, flag_requested, marked,
                   quiet, dispatch>>

\* the dispatcher runs the handlers again on the inputs the last run left
Replay ==
    /\ last.op = "check_requests"
    /\ last.result = "ok"
    /\ ~flag_changed
    /\ flag_changed' = TRUE
    /\ last' = Op("replay", "-", "ok")
    /\ UNCHANGED <<status, received, kv, to_publish, flag_departed,
                   flag_requested, marked, quiet, dispatch>>

Next ==
    \/ \E u \in UnitNames : Join(u)
    \/ \E u \in UnitNames : RemoteChange(u)
    \/ \E u \in UnitNames : Depart(u)
    \/ CheckRequests
    \/ Cleanup
    \/ \E u \in UnitNames : MarkCompleted(u)

Spec == Init /\ [][Next]_vars

NextRestart == Next \/ Restart

SpecRestart == Init /\ [][NextRestart]_vars

\* check_requests turn by turn: it starts with unfulfilled_requests False
CheckBegin ==
    /\ flag_changed
    /\ dispatch = Idle
    /\ dispatch' = [Idle EXCEPT !.pc = "loop", !.rest = all_requests]
    /\ last' = Op("check_requests", "-", "running")
    /\ UNCHANGED <<status, received, kv, to_publish, flag_changed, flag_departed,
                   flag_requested, marked, quiet>>

\* the requested flag after a turn of the loop: toggle_flag comes after the loop
flag_after_turn_early(flag, unfulfilled) == unfulfilled

flag_after_turn(flag, unfulfilled) == flag

\* one turn of the for loop, on the next request of all_requests
CheckTurn ==
    /\ dispatch.pc = "loop"
    /\ dispatch.rest # << >>
    /\ LET u == Head(dispatch.rest)
           r == check_one(u, received[u],
                          [kv |-> kv, pub |-> to_publish, logged |-> dispatch.logged,
                           unfulfilled |-> dispatch.unfulfilled, raised |-> FALSE])
       IN /\ kv' = r.kv
          /\ to_publish' = r.pub
          /\ flag_requested' = flag_after_turn(flag_requested, r.unfulfilled)
          /\ IF r.raised
             THEN /\ dispatch' = Idle
                  /\ last' = Op("check_requests", "-", "raise")
             ELSE /\ dispatch' = [dispatch EXCEPT !.rest = Tail(dispatch.rest),
                                                  !.done = Append(dispatch.done, u),
                                                  !.unfulfilled = r.unfulfilled,
                                                  !.logged = r.logged]
                  /\ last' = Op("check_requests", u, "running")
    /\ UNCHANGED <<status, received, flag_changed, flag_departed, marked, quiet>>

\* toggle_flag(self.expand_name('requested'), unfulfilled_requests)
CheckToggle ==
    /\ dispatch.pc = "loop"
    /\ dispatch.rest = << >>
    /\ flag_requested' = dispatch.unfulfilled
    /\ dispatch' = [dispatch EXCEPT !.pc = "clear", !.toggles = dispatch.toggles + 1]
    /\ last' = Op("check_requests", "-", "toggled")
    /\ UNCHANGED <<status, received, kv, to_publish, flag_changed, flag_departed,
                   marked, quiet>>

\* clear_flag(self.expand_name('changed'))
CheckClear ==
    /\ dispatch.pc = "clear"
    /\ flag_changed' = FALSE
    /\ dispatch' = Idle
    /\ last' = [Op("check_requests", "-", "ok") EXCEPT !.value = dispatch.logged]
    /\ UNCHANGED <<status, received, kv, to_publish, flag_departed, flag_requested,
                   marked, quiet>>

\* one handler at a time: nothing else runs while check_requests is under way
NextSteps ==
    \/ dispatch = Idle /\ \E u \in UnitNames : Join(u)
    \/ dispatch = Idle /\ \E u \in UnitNames : RemoteChange(u)
    \/ dispatch = Idle /\ \E u \in UnitNames : Depart(u)
    \/ dispatch = Idle /\ Cleanup
    \/ dispatch = Idle /\ \E u \in UnitNames : MarkCompleted(u)
    \/ dispatch = Idle /\ Restart
    \/ CheckBegin
    \/ CheckTurn
    \/ CheckToggle
    \/ CheckClear

SpecSteps == Init /\ [][NextSteps]_vars

NextReplay == NextRestart \/ Replay

SpecReplay == Init /\ [][NextReplay]_vars

\* every unit joined, with any received mapping of at most MaxKeys keys
InitHash ==
    /\ status = [u \in UnitNames |-> "joined"]
    /\ received \in [UnitNames -> HashInputs]
    /\ kv = [k \in {} |-> k]
    /\ to_publish = [k \in {} |-> k]
    /\ flag_changed = TRUE
    /\ flag_departed = FALSE
    /\ flag_requested = FALSE
    /\ marked = [u \in UnitNames |-> {}]
    /\ quiet = {}
    /\ dispatch = Idle
    /\ last = Op("init", "-", "ok")

NextHash ==
    \/ CheckRequests
    \/ \E u \in UnitNames : MarkCompleted(u)

SpecHash == InitHash /\ [][NextHash]_vars

\* one remote unit, whose fields may be missing or malformed
NextAccess ==
    \/ JoinAny(Units[1])
    \/ Depart(Units[1])
    \/ CheckRequests
    \/ Cleanup
    \/ MarkCompleted(Units[1])
    \/ Access(Units[1])

SpecAccess == Init /\ [][NextAccess]_vars

TypeOK ==
    /\ status \in [UnitNames -> {"absent", "joined", "departed"}]
    /\ flag_changed \in BOOLEAN
    /\ flag_departed \in BOOLEAN
    /\ flag_requested \in BOOLEAN

\* ------------------------------------------------------------------ claims

Joined == {u \in UnitNames : status[u] = "joined"}

\* key k is in the received mapping D with a truthy value
PresentTruthy(D, k) == \E i \in 1..Len(D) : D[i][1] = k /\ Truthy(D[i][2])

\* the request of D has both instance-id and the requested indicator
Eligible(D) == PresentTruthy(D, "instance-id") /\ PresentTruthy(D, "requested")

\* the persisted acknowledgement of the instance of D is absent from store
AckAbsent(store, D) == hash_key(D) \notin DOMAIN store

\* the persisted acknowledgement of the instance of D is the hash of D
AckCurrent(store, D) == ~AckAbsent(store, D) /\ store[hash_key(D)] = hash(D)

\* the published completion map holds the hash of D for the instance of D
Published(tp, D) ==
    /\ "completed" \in DOMAIN tp
    /\ instance_id(D) \in DOMAIN tp["completed"]
    /\ tp["completed"][instance_id(D)] = hash(D)

\* C1: the request of a joined unit is changed exactly when instance-id and
\* the requested indicator are both present and truthy and the persisted
\* acknowledgement of its instance is absent or differs from its hash; so it
\* is not changed when either field is absent, whatever the store holds.
C1_ChangedIff ==
    \A u \in Joined :
        /\ changed(u) <=>
              /\ Eligible(received[u])
              /\ AckAbsent(kv, received[u]) \/ ~AckCurrent(kv, received[u])
        /\ (~HasKey(received[u], "instance-id") \/ ~HasKey(received[u], "requested"))
              => ~changed(u)

\* a request lacking the requested indicator is not changed although the
\* store holds an acknowledgement for its instance that differs from its hash
C1_Witness ==
    \E u \in Joined :
        /\ ~HasKey(received[u], "requested")
        /\ HasKey(received[u], "instance-id")
        /\ ~AckAbsent(kv, received[u])
        /\ ~AckCurrent(kv, received[u])
        /\ ~changed(u)

\* C2: mark_completed writes the hash of the request into the persisted
\* acknowledgement and into the completion map entry of its instance, after
\* which changed is false and is_completed is true; a second mark_completed
\* right after the first leaves the store and the completion map as they were.
C2_MarkCompleted ==
    [][\A u \in UnitNames :
        (MarkCompleted(u) /\ last'.result = "ok") =>
            /\ AckCurrent(kv', received[u])
            /\ Published(to_publish', received[u])
            /\ ~changed_in(kv', received'[u])
            /\ is_completed_in(to_publish', received'[u])
            /\ last = Op("mark_completed", u, "ok") =>
                   /\ kv' = kv
                   /\ to_publish' = to_publish]_vars

\* mark_completed has just run on an eligible request that was changed before
C2_Witness ==
    \E u \in Joined :
        /\ last = Op("mark_completed", u, "ok")
        /\ Eligible(received[u])
        /\ ~changed(u)
        /\ is_completed(u)

\* C3: when check_requests has finished, the requested flag is set exactly
\* when some joined unit's request is changed (a request that was only
\* reconciled does not set it), and the changed flag is cleared.
C3_PendingFlag ==
    (last.op = "check_requests" /\ last.result = "ok") =>
        /\ flag_requested <=> (\E u \in Joined : changed(u))
        /\ ~flag_changed

\* check_requests has just reconciled a request and found nothing pending
C3_Witness ==
    /\ last.op = "check_requests"
    /\ last.value \in Joined
    /\ ~flag_requested
    /\ ~flag_changed

\* C4: a joined unit whose persisted acknowledgement is its current hash
\* while the completion map lacks that hash is completed by one run of
\* check_requests, with its received data as it was, and that request does
\* not count as pending.
C4_Reconciliation ==
    [][CheckRequests =>
        \A u \in Joined :
            (AckCurrent(kv, received[u]) /\ Eligible(received[u])
                /\ ~Published(to_publish, received[u])) =>
                    /\ received'[u] = received[u]
                    /\ Published(to_publish', received[u])
                    /\ is_completed_in(to_publish', received'[u])
                    /\ flag_requested' <=>
                          (\E v \in Joined \ {u} : changed(v))]_vars

\* check_requests has just reconciled the request of a unit after the
\* completion map was lost
C4_Witness ==
    \E u \in Joined :
        /\ last.op = "check_requests"
        /\ last.value = u
        /\ is_completed(u)
        /\ completed_for_instance(u)

\* the request of u is acknowledged on both sides (ACKED-REMOTE)
AckedRemote(u) ==
    /\ status[u] = "joined"
    /\ ~changed(u)
    /\ completed_for_instance(u)
    /\ is_completed(u)

\* C5: a request is marked completed, its unit departs and cleanup runs;
\* when the unit then rejoins with the same instance-id and the same
\* received data, its request is changed.
C5_RejoinIsNew ==
    [][\A u \in UnitNames : \A D \in Payloads :
        (JoinWith(u, D) /\ marked[u] = {D} /\ Eligible(D)) =>
            changed_in(kv', received'[u])]_vars

C7_AckedIsTerminal ==
    [][\A u \in UnitNames :
        (/\ CheckRequests \/ Cleanup \/ (\E v \in UnitNames : MarkCompleted(v))
         /\ AckedRemote(u)
         /\ received'[u] = received[u]
         /\ status'[u] = "joined") =>
            /\ ~changed_in(kv', received'[u])
            /\ completed_for_instance_in(kv', received'[u])
            /\ is_completed_in(to_publish', received'[u])]_vars

\* position of unit u in the participant order
UnitRank(u) == CHOOSE i \in 1..Len(Units) : Units[i] = u

C9_NeverRaises == last.result # "raise"

\* the pairs of a received mapping, without their order
Items(D) == {D[i] : i \in 1..Len(D)}

\* C10: two received mappings with the same key/value pairs have the same
\* hash whatever the order of their keys, and two received mappings that
\* differ in a field have different hashes.
C10_HashOfItems ==
    \A u, v \in Joined :
        (Items(received[u]) = Items(received[v]))
            <=> (hash(received[u]) = hash(received[v]))

\* two units hold the same pairs in different key orders, and mark_completed
\* of one has stored the hash that is also the hash of the other
C10_Witness ==
    \E u, v \in Joined :
        /\ received[u] # received[v]
        /\ Len(received[u]) = 3
        /\ Items(received[u]) = Items(received[v])
        /\ last = Op("mark_completed", u, "ok")
        /\ AckCurrent(kv, received[v])

\* C11: check_requests run again on the received data, the store and the
\* completion map that its previous run left changes none of the persisted
\* acknowledgements, the completion map and the requested flag.
C11_ReprocessingSafe ==
    [][(CheckRequests /\ last.op = "replay") =>
        /\ kv' = kv
        /\ to_publish' = to_publish
        /\ flag_requested' = flag_requested]_vars

\* check_requests has run a second time after a first run that reconciled or
\* found requests pending
C11_Witness ==
    /\ last.op = "check_requests"
    /\ last.unit = "again"
    /\ flag_requested
    /\ \E u \in Joined : AckedRemote(u)

Departed == {u \in UnitNames : status[u] = "departed"}

\* C13: when cleanup has run, no persisted acknowledgement is left under the
\* key of any unit that was departed, no unit is departed, the departed flag
\* is cleared, and every other persisted acknowledgement is as it was.
C13_Cleanup ==
    [][Cleanup =>
        /\ \A u \in Departed : AckAbsent(kv', received[u])
        /\ \A u \in UnitNames : status'[u] # "departed"
        /\ ~flag_departed'
        /\ \A k \in DOMAIN kv :
              (\A u \in Departed : k # hash_key(received[u])) =>
                  (k \in DOMAIN kv' /\ kv'[k] = kv[k])]_vars

\* cleanup has removed the acknowledgement of a unit that was marked
\* completed and left, and has kept the acknowledgement of a joined unit
C13_Witness ==
    /\ last.op = "cleanup"
    /\ \E u \in UnitNames :
          /\ status[u] = "absent"
          /\ \E D \in marked[u] : AckAbsent(kv, D)
    /\ \E v \in Joined : AckCurrent(kv, received[v])

\* C15: of changed and completed_for_instance exactly one holds for a request
\* that has instance-id and the requested indicator, and neither holds for a
\* request that lacks one of them.
C15_OneBranch ==
    \A u \in Joined :
        IF Eligible(received[u])
        THEN changed(u) <=> ~completed_for_instance(u)
        ELSE ~changed(u) /\ ~completed_for_instance(u)

\* two eligible requests of one instance: the one just marked completed is
\* completed for the instance, the other is changed
C15_Witness ==
    \E u, v \in Joined :
        /\ last = Op("mark_completed", u, "ok")
        /\ Eligible(received[u]) /\ Eligible(received[v])
        /\ completed_for_instance(u) /\ ~changed(u)
        /\ changed(v) /\ ~completed_for_instance(v)
        /\ ~AckAbsent(kv, received[v])

\* C16: mark_completed on the request of u changes the persisted
\* acknowledgement and the completion map entry of the instance-id of u only:
\* the entries of every other instance-id, and so changed and is_completed of
\* every unit that reports another instance-id, are as before, and so is the
\* requested flag.
C16_MarkFrame ==
    [][\A u \in UnitNames :
        MarkCompleted(u) =>
            /\ \A k \in DOMAIN kv \ {hash_key(received[u])} :
                  k \in DOMAIN kv' /\ kv'[k] = kv[k]
            /\ DOMAIN kv' \subseteq DOMAIN kv \cup {hash_key(received[u])}
            /\ \A i \in DOMAIN completed_map(to_publish) \ {instance_id(received[u])} :
                  /\ i \in DOMAIN completed_map(to_publish')
                  /\ completed_map(to_publish')[i] = completed_map(to_publish)[i]
            /\ DOMAIN completed_map(to_publish') \subseteq
                  DOMAIN completed_map(to_publish) \cup {instance_id(received[u])}
            /\ \A v \in Joined :
                  instance_id(received[v]) # instance_id(received[u]) =>
                      /\ changed_in(kv', received'[v]) <=> changed(v)
                      /\ is_completed_in(to_publish', received'[v]) <=> is_completed(v)
            /\ flag_requested' = flag_requested]_vars

\* two units of different instances are both acknowledged: the second
\* mark_completed kept the entries of the first
C16_Witness ==
    \E u, v \in Joined :
        /\ last = Op("mark_completed", u, "ok")
        /\ instance_id(received[u]) # instance_id(received[v])
        /\ Eligible(received[u]) /\ Eligible(received[v])
        /\ AckedRemote(u)
        /\ AckedRemote(v)

InstanceIds == {instance_id(D) : D \in Payloads}

\* C18: on one relation, starting with an empty store and an empty
\* completion map, whenever a persisted acknowledgement exists for an
\* instance-id the completion map entry of that instance-id exists and is
\* equal to it, and check_requests never takes its reconciliation branch.
C18_AckIsPublished ==
    /\ \A k \in DOMAIN kv :
          \E i \in DOMAIN completed_map(to_publish) :
              /\ k = "request." \o Format(i)
              /\ completed_map(to_publish)[i] = kv[k]
    /\ \A i \in InstanceIds :
          ("request." \o Format(i)) \in DOMAIN kv =>
              /\ i \in DOMAIN completed_map(to_publish)
              /\ completed_map(to_publish)[i] = kv["request." \o Format(i)]
    /\ last.op = "check_requests" => last.value = "-"

\* after departures, rejoins and data changes the store holds
\* acknowledgements of two instances and check_requests has run
C18_Witness ==
    /\ last.op = "check_requests"
    /\ Cardinality(DOMAIN kv) = 2
    /\ \E u \in UnitNames : status[u] = "absent" /\ marked[u] # {}

\* C12: while check_requests is still going through the joined units neither
\* the requested flag nor the changed flag is written; the requested flag is
\* written once, after every joined unit's request was examined, with the
\* result gathered over all of them.
C12_FlagsAfterLoop ==
    [][/\ (CheckBegin \/ CheckTurn) =>
            /\ flag_requested' = flag_requested
            /\ flag_changed' = flag_changed
       /\ CheckToggle =>
            /\ dispatch.done = all_requests
            /\ flag_changed' = flag_changed
            /\ flag_requested' <=> (\E u \in Joined : changed(u))
       /\ CheckClear =>
            /\ dispatch.toggles = 1
            /\ flag_requested' = flag_requested
            /\ ~flag_changed']_vars

\* both joined units were examined, the second pending, and then the
\* requested flag was set, once; the changed flag is not cleared yet
C12_Witness ==
    /\ dispatch.pc = "clear"
    /\ dispatch.toggles = 1
    /\ Len(dispatch.done) = 2
    /\ ~changed(dispatch.done[1])
    /\ changed(dispatch.done[2])
    /\ flag_requested
    /\ flag_changed

\* C14: once mark_completed was called on every request that needs it and no
\* unit's data has changed and no unit has left since, check_requests sets
\* the requested flag to false, on its next run and on every later one.
C14_Convergence ==
    [][(CheckRequests /\ \A u \in Joined : Eligible(received[u]) => u \in quiet) =>
        ~flag_requested']_vars

====
